---- MODULE Spec2Model ----
(***************************************************************************)
(* Model of src/src/my_server/server.py: the GlobalModelManager registry   *)
(* (models list + cadquery Assembly), the two primitive-creation tools,    *)
(* visualize_models and clear_models.                                      *)
(*                                                                         *)
(* Numbers.  The tools take Python floats.  Every number of the model is   *)
(* an integer count of HALF units (10.0 is 20, 1.5 is 3), so that the      *)
(* code's x/2 is exact for the integer-valued widths and heights drawn     *)
(* below.  Float rounding is not modelled.                                 *)
(*                                                                         *)
(* Strings.  A boundary f-string is modelled as the sequence of its lines, *)
(* each line a record of its literal label and the numbers interpolated    *)
(* into it, in the order the f-string interpolates them.                   *)
(*                                                                         *)
(* Three specifications share the variables:                               *)
(*   SpecRegistry  a client calling the GlobalModelManager methods, one    *)
(*                 call at a time;                                         *)
(*   Spec          the tool handlers, one call at a time;                  *)
(*   SpecRace      add_model / clear_all executed statement by statement   *)
(*                 by two threads, with or without an external mutex.      *)
(***************************************************************************)
EXTENDS Integers, Sequences, FiniteSets, TLC

VARIABLES
    models,            \* self.models: the list of model_info dicts
    heap,              \* the cq.Assembly objects, by reference: ref -> children
    current_assembly,  \* self.current_assembly: a reference into heap
    held,              \* a reference a caller got from get_combined_model (0: none)
    heldFresh,         \* history: no clear_all since held was obtained
    heldLen,           \* history: number of children of held when it was obtained
    added,             \* history: shapes passed to add_model since the last clear_all
    last,              \* the last call: which operation, how it ended, what it returned
    pc,                \* SpecRace: each thread's position inside its call
    local,             \* SpecRace: each thread's arguments and model_info local
    serialized         \* SpecRace: do the callers wrap the registry in a mutex

vars == <<models, heap, current_assembly, held, heldFresh, heldLen, added,
          last, pc, local, serialized>>

\* Caps on len(self.models) that keep the state spaces finite: for the
\* registry's clients (SpecRegistry, SpecRace) and for the tools (Spec).
MaxModels == 3
MaxToolModels == 2

\* config.get('max_models', 100)
DefaultMaxModels == 100

Refs == 1..3
Threads == {1, 2}
Names == {"base"}

(***************************************************************************)
(* Session configuration and token validation                              *)
(***************************************************************************)

\* A str is a sequence of characters; None is its own value.
NoneToken == [none |-> TRUE, text |-> <<>>]
StrToken(s) == [none |-> FALSE, text |-> s]
Tokens == {NoneToken, StrToken(<<>>), StrToken(<<" ">>), StrToken(<<"t", " ">>)}

RECURSIVE LStrip(_)
LStrip(s) == IF s # <<>> /\ Head(s) = " " THEN LStrip(Tail(s)) ELSE s

RECURSIVE RStrip(_)
RStrip(s) ==
    IF s # <<>> /\ s[Len(s)] = " " THEN RStrip(SubSeq(s, 1, Len(s) - 1)) ELSE s

\* str.strip()
Strip(s) == RStrip(LStrip(s))

\* Python truthiness of an Optional[str]
Truthy(tok) == ~tok.none /\ Len(tok.text) > 0

\* return server_token is not None and len(server_token.strip()) > 0
\*        if server_token else True
validate_server_access(tok) ==
    IF Truthy(tok) THEN ~tok.none /\ Len(Strip(tok.text)) > 0 ELSE TRUE

\* get_request_config(): the smithery_config dict of the request scope, or
\* None when the function falls off its end (no request, or the except branch).
NoConfig == [present |-> FALSE]
Config(has_max_models, max_models, server_token) ==
    [present |-> TRUE, has_max_models |-> has_max_models, max_models |-> max_models,
     server_token |-> server_token]
\* The configurations drawn: none; no keys set; a limit of one model with a
\* token; a blank token.
Configs ==
    { NoConfig,
      Config(FALSE, 0, NoneToken),
      Config(TRUE, 1, StrToken(<<"t", " ">>)),
      Config(FALSE, 0, StrToken(<<" ">>)) }

\* config.get('max_models', 100)
max_models_of(config) ==
    IF config.has_max_models THEN config.max_models ELSE DefaultMaxModels

(***************************************************************************)
(* Placement: axis -> workplane, and the boundary f-strings                *)
(***************************************************************************)

Axes == {"X", "Y", "Z"}
\* "W" stands for any string outside {X, Y, Z}: no case of the match applies.
AxisInputs == Axes \cup {"W"}

\* Inputs of create_box_Axi_W_H, in half units:
\* rect_origin_x1, rect_origin_x2, rect_width, rect_height, extrude_start, extrude_end.
\* The first is (0,0,10,4,0,5); the second, (1,-2,4,2,3,1), has
\* extrude_end < extrude_start.
BoxCases ==
    { [x1 |-> 0, x2 |-> 0,  w |-> 20, h |-> 8,  s |-> 0,  e |-> 10],
      [x1 |-> 2, x2 |-> -4, w |-> 8,  h |-> 4,  s |-> 6,  e |-> 2] }

\* Inputs of create_cylinder_Axi_R, in half units:
\* circle_origin_x1, circle_origin_x2, circle_radius, extrude_start, extrude_end.
\* (2,3,1.5,-1,1)
CylCases ==
    { [x1 |-> 4, x2 |-> 6, r |-> 3, s |-> -2, e |-> 2] }

\* x / 2 on a number held in half units (exact for the even values drawn above)
Half(x) == x \div 2

\* A variant of Workplane0 with a default branch: an unknown axis is taken as Z.
Workplane0DefaultZ(axis, x1, x2, start) ==
    CASE axis = "X" -> [bound |-> TRUE, plane |-> "YZ", origin |-> <<start, x1, x2>>]
      [] axis = "Y" -> [bound |-> TRUE, plane |-> "XZ", origin |-> <<x1, start, x2>>]
      [] OTHER      -> [bound |-> TRUE, plane |-> "XY", origin |-> <<x1, x2, start>>]

\* A variant of Workplane0 whose Y branch puts the origin in the X branch's order.
Workplane0SwappedY(axis, x1, x2, start) ==
    CASE axis = "X" -> [bound |-> TRUE, plane |-> "YZ", origin |-> <<start, x1, x2>>]
      [] axis = "Y" -> [bound |-> TRUE, plane |-> "XZ", origin |-> <<start, x1, x2>>]
      [] axis = "Z" -> [bound |-> TRUE, plane |-> "XY", origin |-> <<x1, x2, start>>]
      [] OTHER      -> [bound |-> FALSE]

\* match axis: case "X"/"Y"/"Z": wp = cq.Workplane(plane).workplane(origin=...)
\* With no matching case the local wp stays unbound.
Workplane0(axis, x1, x2, start) ==
    CASE axis = "X" -> [bound |-> TRUE, plane |-> "YZ", origin |-> <<start, x1, x2>>]
      [] axis = "Y" -> [bound |-> TRUE, plane |-> "XZ", origin |-> <<x1, start, x2>>]
      [] axis = "Z" -> [bound |-> TRUE, plane |-> "XY", origin |-> <<x1, x2, start>>]
      [] OTHER      -> [bound |-> FALSE]

NoPlacement == [plane |-> "none"]

\* wp = wp.workplane(offset=extrude_start)
\* wp.rect(w, h) / wp.circle(r), then .extrude(extrude_end - extrude_start):
\* everything the tool hands to the geometry kernel.
Placement(wp, profile, start, end) ==
    [plane |-> wp.plane, origin |-> wp.origin, offset |-> start,
     profile |-> profile, length |-> end - start]

RectProfile(w, h) == [kind |-> "rect", dims |-> <<w, h>>]
CircleProfile(r) == [kind |-> "circle", dims |-> <<r>>]

\* The kernel's behaviour on a non-positive extrusion length is not the tool's:
\* it may build a solid or raise.
KernelMayRaise(p) == p.length <= 0

\* The solid the kernel returns is identified by what it was built from.
KernelSolid(p) == p

\* One line of a boundary f-string: its literal label and interpolated numbers.
Line(label, nums) == [label |-> label, nums |-> nums]

\* A variant of BoxBoundary whose X branch reports the in-plane ranges swapped.
BoxBoundarySwapped(axis, c) ==
    CASE axis = "X" ->
           << Line("X_boundary", <<c.s, c.e>>),
              Line("Y_boundary", <<c.x2 - Half(c.h), c.x2 + Half(c.h)>>),
              Line("Height", <<c.x1 - Half(c.w), c.x1 + Half(c.w)>>) >>
      [] axis = "Y" ->
           << Line("X_boundary", <<c.x1 - Half(c.w), c.x1 + Half(c.w)>>),
              Line("Y_boundary", <<c.s, c.e>>),
              Line("Height", <<c.x2 - Half(c.h), c.x2 + Half(c.h)>>) >>
      [] axis = "Z" ->
           << Line("X_boundary", <<c.x1 - Half(c.w), c.x1 + Half(c.w)>>),
              Line("Y_boundary", <<c.x2 - Half(c.h), c.x2 + Half(c.h)>>),
              Line("Height", <<c.s, c.e>>) >>

\* The boundary= f-strings of create_box_Axi_W_H, one per axis.
BoxBoundary(axis, c) ==
    CASE axis = "X" ->
           << Line("X_boundary", <<c.s, c.e>>),
              Line("Y_boundary", <<c.x1 - Half(c.w), c.x1 + Half(c.w)>>),
              Line("Height", <<c.x2 - Half(c.h), c.x2 + Half(c.h)>>) >>
      [] axis = "Y" ->
           << Line("X_boundary", <<c.x1 - Half(c.w), c.x1 + Half(c.w)>>),
              Line("Y_boundary", <<c.s, c.e>>),
              Line("Height", <<c.x2 - Half(c.h), c.x2 + Half(c.h)>>) >>
      [] axis = "Z" ->
           << Line("X_boundary", <<c.x1 - Half(c.w), c.x1 + Half(c.w)>>),
              Line("Y_boundary", <<c.x2 - Half(c.h), c.x2 + Half(c.h)>>),
              Line("Height", <<c.s, c.e>>) >>

\* A variant of CylBoundary whose Y branch was pasted from the X branch.
CylBoundaryPasted(axis, c) ==
    CASE axis = "X" ->
           << Line("X_boundary", <<c.s, c.e>>),
              Line("YZ_circle_center", <<c.x1, c.x2>>),
              Line("Radius", <<c.r>>) >>
      [] axis = "Y" ->
           << Line("Y_boundary", <<c.s, c.e>>),
              Line("YZ_circle_center", <<c.x1, c.x2>>),
              Line("Radius", <<c.r>>) >>
      [] axis = "Z" ->
           << Line("Z_boundary", <<c.s, c.e>>),
              Line("XY_circle_center", <<c.x1, c.x2>>),
              Line("Radius", <<c.r>>) >>

\* The boundary= f-strings of create_cylinder_Axi_R, one per axis.
CylBoundary(axis, c) ==
    CASE axis = "X" ->
           << Line("X_boundary", <<c.s, c.e>>),
              Line("YZ_circle_center", <<c.x1, c.x2>>),
              Line("Radius", <<c.r>>) >>
      [] axis = "Y" ->
           << Line("Y_boundary", <<c.s, c.e>>),
              Line("XZ_circle_center", <<c.x1, c.x2>>),
              Line("Radius", <<c.r>>) >>
      [] axis = "Z" ->
           << Line("Z_boundary", <<c.s, c.e>>),
              Line("XY_circle_center", <<c.x1, c.x2>>),
              Line("Radius", <<c.r>>) >>

(***************************************************************************)
(* GlobalModelManager                                                      *)
(***************************************************************************)

NoInfo == [id |-> 0]
NoArgs == [axis |-> ""]

\* What a call left behind: the operation, how it ended ("returned", "raised",
\* or the kind of message a tool returned), and the values it produced.
\* args is what a creation tool was called with: the axis, and the numbers
\* once the call got as far as using them.
\* renderer is a history field: what the renderer did during the call.
Result(op, outcome) ==
    [op |-> op, outcome |-> outcome, exc |-> "", args |-> NoArgs, info |-> NoInfo,
     total |-> 0, placement |-> NoPlacement, infos |-> <<>>, ref |-> 0,
     renderer |-> ""]

\* A variant of NextId that numbers from 0.
NextIdZeroBased(ms) == Len(ms)

\* "id": len(self.models) + 1
NextId(ms) == Len(ms) + 1

\* model_info = {"id": ..., "name": name, "type": shape_type, "boundary": boundary}
ModelInfo(ms, name, shape_type, boundary) ==
    [id |-> NextId(ms), name |-> name, type |-> shape_type, boundary |-> boundary]

\* self.current_assembly.add(shape): cadquery appends a child to the assembly
\* object, in place.
AssemblyAdd(h, ref, shape) == [h EXCEPT ![ref] = Append(@, shape)]

\* A reference no live name holds: where a new cq.Assembly() is allocated.
FreshRef == CHOOSE r \in Refs : r # current_assembly /\ r # held

\* GlobalModelManager.add_model; it returns ModelInfo(models, ...).
add_model(name, shape, shape_type, boundary) ==
    /\ models' = Append(models, ModelInfo(models, name, shape_type, boundary))
    /\ heap' = AssemblyAdd(heap, current_assembly, shape)
    /\ added' = Append(added, [name |-> name, shape |-> shape, type |-> shape_type])
    /\ UNCHANGED current_assembly

\* A variant of get_all_models_info that starts at the second model.
get_all_models_info_skip(ms) ==
    [i \in 1..(Len(ms) - 1) |->
        [id |-> ms[i + 1].id, type |-> ms[i + 1].type, parameters |-> <<>>,
         workplane |-> "", extrude_direction |-> ""]]

\* GlobalModelManager.get_all_models_info: no model dict has the optional
\* keys, so model.get(key, default) yields the default.
get_all_models_info(ms) ==
    [i \in 1..Len(ms) |->
        [id |-> ms[i].id, type |-> ms[i].type, parameters |-> <<>>,
         workplane |-> "", extrude_direction |-> ""]]

\* A variant of get_combined_model that hands out a copy of the assembly.
get_combined_model_copy ==
    /\ held' = FreshRef
    /\ heap' = [r \in Refs |->
                  IF r = FreshRef THEN heap[current_assembly]
                  ELSE IF r = held /\ held # current_assembly THEN <<>>
                  ELSE heap[r]]

\* GlobalModelManager.get_combined_model, the caller keeping what it returns:
\* return self.current_assembly.  The assembly the caller held before, if it
\* is no longer the registry's, becomes garbage.
get_combined_model ==
    /\ held' = current_assembly
    /\ heap' = [r \in Refs |->
                  IF r = held /\ held # current_assembly THEN <<>> ELSE heap[r]]

\* A variant of clear_all that replaces the assembly and keeps the list.
clear_all_keep_models ==
    /\ UNCHANGED models
    /\ current_assembly' = FreshRef
    /\ heap' = [r \in Refs |->
                  IF r = FreshRef THEN <<>>
                  ELSE IF r = current_assembly /\ held # current_assembly THEN <<>>
                  ELSE heap[r]]
    /\ added' = <<>>
    /\ heldFresh' = FALSE

\* A variant of clear_all that empties the list and keeps the assembly.
clear_all_keep_assembly ==
    /\ models' = <<>>
    /\ UNCHANGED <<heap, current_assembly>>
    /\ added' = <<>>
    /\ heldFresh' = FALSE

\* GlobalModelManager.clear_all: self.models = []; self.current_assembly =
\* cq.Assembly().  The old assembly lives on only if a caller holds it.
clear_all ==
    /\ models' = <<>>
    /\ current_assembly' = FreshRef
    /\ heap' = [r \in Refs |->
                  IF r = FreshRef THEN <<>>
                  ELSE IF r = current_assembly /\ held # current_assembly THEN <<>>
                  ELSE heap[r]]
    /\ added' = <<>>
    /\ heldFresh' = FALSE

(***************************************************************************)
(* Initial state: model_manager = GlobalModelManager()                     *)
(***************************************************************************)

NoLocal == [op |-> "none"]

\* GlobalModelManager.__init__, no call made yet
InitManager ==
    /\ models = <<>>
    /\ heap = [r \in Refs |-> <<>>]
    /\ current_assembly = 1
    /\ held = 0
    /\ heldFresh = FALSE
    /\ heldLen = 0
    /\ added = <<>>
    /\ last = Result("init", "returned")
    /\ pc = [t \in Threads |-> "idle"]
    /\ local = [t \in Threads |-> NoLocal]

Init == InitManager /\ serialized = TRUE

(***************************************************************************)
(* SpecRegistry: a client of the GlobalModelManager methods                *)
(***************************************************************************)

\* (shape, shape_type) pairs a client passes to add_model.
RegistryInputs ==
    { [shape |-> KernelSolid(Placement(Workplane0("Z", 0, 0, 0), RectProfile(20, 8), 0, 10)),
       type |-> "box"],
      [shape |-> KernelSolid(Placement(Workplane0("X", 4, 6, -2), CircleProfile(3), -2, 2)),
       type |-> "cylinder"] }

Boundaries == { <<Line("X_boundary", <<0, 2>>)>> }

AddModel ==
    \E name \in Names, inp \in RegistryInputs, boundary \in Boundaries :
        /\ Len(models) < MaxModels
        /\ add_model(name, inp.shape, inp.type, boundary)
        /\ last' = [Result("add_model", "returned") EXCEPT
                      !.info = ModelInfo(models, name, inp.type, boundary)]
        /\ UNCHANGED <<held, heldFresh, heldLen, pc, local, serialized>>

ClearAll ==
    /\ clear_all
    /\ last' = Result("clear_all", "returned")
    /\ UNCHANGED <<held, heldLen, pc, local, serialized>>

GetCombinedModel ==
    /\ get_combined_model
    /\ heldFresh' = TRUE
    /\ heldLen' = Len(heap[current_assembly])
    /\ last' = [Result("get_combined_model", "returned") EXCEPT !.ref = held']
    /\ UNCHANGED <<models, current_assembly, added, pc, local, serialized>>

GetAllModelsInfo ==
    /\ last' = [Result("get_all_models_info", "returned") EXCEPT
                  !.infos = get_all_models_info(models)]
    /\ UNCHANGED <<models, heap, current_assembly, held, heldFresh, heldLen, added,
                   pc, local, serialized>>

NextRegistry == AddModel \/ ClearAll \/ GetCombinedModel \/ GetAllModelsInfo

SpecRegistry == Init /\ [][NextRegistry]_vars

(***************************************************************************)
(* Spec: the tool handlers, one call at a time                             *)
(***************************************************************************)

\* A tool call that ends without touching the registry.
Leaves(result) ==
    /\ last' = result
    /\ UNCHANGED <<models, heap, current_assembly, added, heldFresh>>

\* An exception leaves the handler.
Raised(op, exc) == [Result(op, "raised") EXCEPT !.exc = exc]

\* create_box_Axi_W_H.  kernelRaises: the kernel's choice on a degenerate
\* extrusion; it is FALSE in a call that ends before the kernel is reached.
create_box_Axi_W_H(config, model_name, axis, c, kernelRaises) ==
    LET op == "create_box_Axi_W_H"
        args == [axis |-> axis, c |-> c]
        early == [axis |-> axis]
        wp == Workplane0(axis, c.x1, c.x2, c.s)
        p == Placement(wp, RectProfile(c.w, c.h), c.s, c.e)
        info == ModelInfo(models, model_name, "box", BoxBoundary(axis, c))
    IN  IF ~config.present
        THEN \* config.get on None
             ~kernelRaises /\ Leaves([Raised(op, "AttributeError") EXCEPT
                                        !.args = early])
        ELSE IF ~validate_server_access(config.server_token)
        THEN ~kernelRaises /\ Leaves([Result(op, "error_token") EXCEPT
                                        !.args = early])
        ELSE IF Len(models) >= max_models_of(config)
        THEN ~kernelRaises /\ Leaves([Result(op, "error_limit") EXCEPT
                                        !.args = early])
        ELSE IF ~wp.bound
        THEN \* wp = wp.workplane(...) reads the unbound local
             ~kernelRaises /\ Leaves([Raised(op, "UnboundLocalError") EXCEPT
                                        !.args = args])
        ELSE IF kernelRaises
        THEN /\ KernelMayRaise(p)
             /\ Leaves([Raised(op, "KernelError") EXCEPT !.args = args, !.placement = p])
        ELSE IF axis \notin Axes
        THEN \* the second match binds no model_info: the return reads it unbound
             Leaves([Raised(op, "UnboundLocalError") EXCEPT
                       !.args = args, !.placement = p])
        ELSE /\ Len(models) < MaxToolModels
             /\ add_model(model_name, KernelSolid(p), "box", BoxBoundary(axis, c))
             /\ last' = [Result(op, "created") EXCEPT
                           !.args = args, !.placement = p, !.info = info,
                           !.total = Len(models')]
             /\ UNCHANGED heldFresh

\* create_cylinder_Axi_R
create_cylinder_Axi_R(config, model_name, axis, c, kernelRaises) ==
    LET op == "create_cylinder_Axi_R"
        args == [axis |-> axis, c |-> c]
        early == [axis |-> axis]
        wp == Workplane0(axis, c.x1, c.x2, c.s)
        p == Placement(wp, CircleProfile(c.r), c.s, c.e)
        info == ModelInfo(models, model_name, "cylinder", CylBoundary(axis, c))
    IN  IF ~config.present
        THEN ~kernelRaises /\ Leaves([Raised(op, "AttributeError") EXCEPT
                                        !.args = early])
        ELSE IF ~validate_server_access(config.server_token)
        THEN ~kernelRaises /\ Leaves([Result(op, "error_token") EXCEPT
                                        !.args = early])
        ELSE IF Len(models) >= max_models_of(config)
        THEN ~kernelRaises /\ Leaves([Result(op, "error_limit") EXCEPT
                                        !.args = early])
        ELSE IF ~wp.bound
        THEN ~kernelRaises /\ Leaves([Raised(op, "UnboundLocalError") EXCEPT
                                        !.args = args])
        ELSE IF kernelRaises
        THEN /\ KernelMayRaise(p)
             /\ Leaves([Raised(op, "KernelError") EXCEPT !.args = args, !.placement = p])
        ELSE IF axis \notin Axes
        THEN Leaves([Raised(op, "UnboundLocalError") EXCEPT
                       !.args = args, !.placement = p])
        ELSE /\ Len(models) < MaxToolModels
             /\ add_model(model_name, KernelSolid(p), "cylinder", CylBoundary(axis, c))
             /\ last' = [Result(op, "created") EXCEPT
                           !.args = args, !.placement = p, !.info = info,
                           !.total = Len(models')]
             /\ UNCHANGED heldFresh

\* A variant of ShowResult without the try: the renderer's exception leaves the handler.
ShowResultUncaught(rendererRaises) ==
    IF rendererRaises
    THEN [Raised("visualize_models", "RenderError") EXCEPT !.renderer = "raised"]
    ELSE [Result("visualize_models", "shown") EXCEPT
            !.ref = current_assembly, !.renderer = "returned",
            !.infos = get_all_models_info(models), !.total = Len(models)]

\* The try block of visualize_models: show(assembly) on the registry's
\* assembly; except Exception returns the failure message.
ShowResult(rendererRaises) ==
    IF rendererRaises
    THEN [Result("visualize_models", "render_failed") EXCEPT
            !.ref = current_assembly, !.renderer = "raised"]
    ELSE [Result("visualize_models", "shown") EXCEPT
            !.ref = current_assembly, !.renderer = "returned",
            !.infos = get_all_models_info(models), !.total = Len(models)]

\* visualize_models.  rendererRaises: show(assembly) raises an Exception.
visualize_models(config, rendererRaises) ==
    LET op == "visualize_models"
    IN  IF ~config.present
        THEN ~rendererRaises /\ Leaves(Raised(op, "AttributeError"))
        ELSE IF ~validate_server_access(config.server_token)
        THEN ~rendererRaises /\ Leaves(Result(op, "error_token"))
        ELSE IF models = <<>>
        THEN ~rendererRaises /\ Leaves(Result(op, "empty"))
        ELSE Leaves(ShowResult(rendererRaises))

\* clear_models
clear_models(config) ==
    LET op == "clear_models"
    IN  IF ~config.present
        THEN Leaves(Raised(op, "AttributeError"))
        ELSE IF ~validate_server_access(config.server_token)
        THEN Leaves(Result(op, "error_token"))
        ELSE /\ clear_all
             /\ last' = Result(op, "cleared")

CreateBox ==
    \E config \in Configs, name \in Names, axis \in AxisInputs, c \in BoxCases,
       kernelRaises \in BOOLEAN :
        /\ create_box_Axi_W_H(config, name, axis, c, kernelRaises)
        /\ UNCHANGED <<held, heldLen, pc, local, serialized>>

CreateCylinder ==
    \E config \in Configs, name \in Names, axis \in AxisInputs, c \in CylCases,
       kernelRaises \in BOOLEAN :
        /\ create_cylinder_Axi_R(config, name, axis, c, kernelRaises)
        /\ UNCHANGED <<held, heldLen, pc, local, serialized>>

VisualizeModels ==
    \E config \in Configs, rendererRaises \in BOOLEAN :
        /\ visualize_models(config, rendererRaises)
        /\ UNCHANGED <<held, heldLen, pc, local, serialized>>

ClearModels ==
    \E config \in Configs :
        /\ clear_models(config)
        /\ UNCHANGED <<held, heldLen, pc, local, serialized>>

Next == CreateBox \/ CreateCylinder \/ VisualizeModels \/ ClearModels

Spec == Init /\ [][Next]_vars

(***************************************************************************)
(* SpecRace: add_model and clear_all, statement by statement, on two       *)
(* threads.  serialized: the callers take a mutex around each call.        *)
(* The history variables of the one-call-at-a-time specifications are not  *)
(* maintained here.                                                        *)
(***************************************************************************)

InitRace == InitManager /\ serialized \in BOOLEAN

\* A thread may start a call; under the mutex only when no call is running.
CanEnter(t) ==
    /\ pc[t] = "idle"
    /\ serialized => \A u \in Threads : pc[u] = "idle"

\* add_model calls that have not appended yet
Pending == {u \in Threads : pc[u] \in {"add_build", "add_append"}}

Goto(t, label) == pc' = [pc EXCEPT ![t] = label]

\* add_model is entered with its arguments.
BeginAddModel(t) ==
    \E name \in Names, inp \in RegistryInputs, boundary \in Boundaries :
        /\ CanEnter(t)
        /\ Len(models) + Cardinality(Pending) < MaxModels
        /\ Goto(t, "add_build")
        /\ local' = [local EXCEPT ![t] =
                       [op |-> "add_model", name |-> name, shape |-> inp.shape,
                        type |-> inp.type, boundary |-> boundary, info |-> NoInfo]]
        /\ UNCHANGED <<models, heap, current_assembly, held, heldFresh, heldLen,
                       added, last, serialized>>

\* model_info = {"id": len(self.models) + 1, ...}
AddBuildInfo(t) ==
    /\ pc[t] = "add_build"
    /\ local' = [local EXCEPT ![t].info =
                   ModelInfo(models, local[t].name, local[t].type, local[t].boundary)]
    /\ Goto(t, "add_append")
    /\ UNCHANGED <<models, heap, current_assembly, held, heldFresh, heldLen,
                   added, last, serialized>>

\* self.models.append(model_info)
AddAppend(t) ==
    /\ pc[t] = "add_append"
    /\ models' = Append(models, local[t].info)
    /\ Goto(t, "add_assemble")
    /\ UNCHANGED <<heap, current_assembly, held, heldFresh, heldLen, added, last,
                   local, serialized>>

\* self.current_assembly.add(shape); return model_info
AddAssemble(t) ==
    /\ pc[t] = "add_assemble"
    /\ heap' = AssemblyAdd(heap, current_assembly, local[t].shape)
    /\ last' = [Result("add_model", "returned") EXCEPT !.info = local[t].info]
    /\ local' = [local EXCEPT ![t] = NoLocal]
    /\ Goto(t, "idle")
    /\ UNCHANGED <<models, current_assembly, held, heldFresh, heldLen, added,
                   serialized>>

\* clear_all is entered.
BeginClearAll(t) ==
    /\ CanEnter(t)
    /\ Goto(t, "clear_models")
    /\ local' = [local EXCEPT ![t] = [op |-> "clear_all"]]
    /\ UNCHANGED <<models, heap, current_assembly, held, heldFresh, heldLen,
                   added, last, serialized>>

\* self.models = []
ClearModelsList(t) ==
    /\ pc[t] = "clear_models"
    /\ models' = <<>>
    /\ Goto(t, "clear_assembly")
    /\ UNCHANGED <<heap, current_assembly, held, heldFresh, heldLen, added, last,
                   local, serialized>>

\* self.current_assembly = cq.Assembly()
ClearAssembly(t) ==
    /\ pc[t] = "clear_assembly"
    /\ current_assembly' = FreshRef
    /\ heap' = [r \in Refs |-> IF r \in {FreshRef, current_assembly} THEN <<>> ELSE heap[r]]
    /\ last' = Result("clear_all", "returned")
    /\ local' = [local EXCEPT ![t] = NoLocal]
    /\ Goto(t, "idle")
    /\ UNCHANGED <<models, held, heldFresh, heldLen, added, serialized>>

NextRace ==
    \E t \in Threads :
        \/ BeginAddModel(t)
        \/ AddBuildInfo(t)
        \/ AddAppend(t)
        \/ AddAssemble(t)
        \/ BeginClearAll(t)
        \/ ClearModelsList(t)
        \/ ClearAssembly(t)

SpecRace == InitRace /\ [][NextRace]_vars

(***************************************************************************)
(* Properties of the registry (SpecRegistry)                               *)
(***************************************************************************)

\* The shapes passed to add_model since the last clear_all, in call order.
AddedShapes == [i \in 1..Len(added) |-> added[i].shape]

\* C1: the id add_model returns is the number of add_model calls since the
\* most recent clear_all (this call included), so N calls in a row get 1..N
\* and the first call after a clear_all gets 1; the stored ids are 1..N.
C1_SequentialIds ==
    /\ \A i \in 1..Len(models) : models[i].id = i
    /\ last.op = "add_model" => last.info.id = Len(added)

\* C1 witness: a caller still holds an assembly of two or more solids from
\* before a clear_all, and the add_model that just returned got id 1.
C1_Witness ==
    /\ last.op = "add_model"
    /\ last.info.id = 1
    /\ held # 0
    /\ ~heldFresh
    /\ held # current_assembly
    /\ Len(heap[held]) >= 2

\* C2: the registry's assembly holds exactly the shapes passed to add_model
\* since the last clear_all, in call order; it has as many solids as there are
\* model records, and none right after clear_all.
C2_AssemblyHoldsAdded ==
    /\ heap[current_assembly] = AddedShapes
    /\ Len(heap[current_assembly]) = Len(models)
    /\ last.op = "clear_all" => heap[current_assembly] = <<>>

\* C2 witness: three add_model calls, of different shapes, since the last clear_all.
C2_Witness ==
    /\ Len(heap[current_assembly]) = 3
    /\ Len(models) = 3
    /\ heap[current_assembly][1] # heap[current_assembly][2]

\* C3: as long as no clear_all came after it was obtained, the reference that
\* get_combined_model returned holds every shape added, also those added
\* after the reference was obtained.
C3_LiveReference ==
    (held # 0 /\ heldFresh) => heap[held] = AddedShapes

\* C3 witness: the held assembly has grown since the caller obtained it.
C3_Witness ==
    /\ held # 0
    /\ heldFresh
    /\ Len(heap[held]) > heldLen

\* infos is one summary per add_model call since the last clear_all, in call
\* order, with that call's id and type.
Summarises(infos) ==
    /\ Len(infos) = Len(models)
    /\ Len(infos) = Len(added)
    /\ \A i \in 1..Len(infos) :
          /\ infos[i].id = i
          /\ infos[i].id = models[i].id
          /\ infos[i].type = added[i].type

\* C4: get_all_models_info yields one summary per model of the registry, in
\* creation order, with the model's id and type; none right after clear_all.
C4_InfoPerModel ==
    /\ Summarises(get_all_models_info(models))
    /\ last.op = "get_all_models_info" => Summarises(last.infos)
    /\ last.op = "clear_all" => get_all_models_info(models) = <<>>

\* C4 witness: a get_all_models_info call returned summaries of two types.
C4_Witness ==
    /\ last.op = "get_all_models_info"
    /\ Len(last.infos) >= 2
    /\ last.infos[1].type # last.infos[2].type

(***************************************************************************)
(* Properties of the tools (Spec)                                          *)
(***************************************************************************)

\* Position of a global axis in X, Y, Z order.
AxisIndex(a) == CASE a = "X" -> 1 [] a = "Y" -> 2 [] a = "Z" -> 3

\* The two global axes other than k, in X, Y, Z order.
FirstOther(k) == IF k = 1 THEN 2 ELSE 1
SecondOther(k) == IF k = 3 THEN 2 ELSE 3

\* The range a box covers on each global axis: extrude_start -> extrude_end
\* on the extrusion axis, origin -/+ half the extent on the two others.
BoxRanges(a, c) ==
    [i \in 1..3 |->
        IF i = AxisIndex(a) THEN <<c.s, c.e>>
        ELSE IF i = FirstOther(AxisIndex(a))
             THEN <<c.x1 - c.w \div 2, c.x1 + c.w \div 2>>
             ELSE <<c.x2 - c.h \div 2, c.x2 + c.h \div 2>>]

BoxCreated == last.op = "create_box_Axi_W_H" /\ last.outcome = "created"

\* C5 as claimed: the three lines of a box's boundary carry the ranges of the
\* global axes X, Y, Z, each labelled with its axis.
C5_AsClaimed ==
    BoxCreated =>
        /\ Len(last.info.boundary) = 3
        /\ \A i \in 1..3 :
              /\ last.info.boundary[i].nums = BoxRanges(last.args.axis, last.args.c)[i]
              /\ last.info.boundary[i].label =
                     <<"X_boundary", "Y_boundary", "Z_boundary">>[i]

\* C5 amended: the three lines of a box's boundary carry the ranges of the
\* global axes X, Y, Z in that order; the first two are labelled X_boundary
\* and Y_boundary, the third (the Z range) is labelled Height.
C5_BoxBoundary ==
    BoxCreated =>
        /\ Len(last.info.boundary) = 3
        /\ models[last.info.id].boundary = last.info.boundary
        /\ \A i \in 1..3 :
              /\ last.info.boundary[i].nums = BoxRanges(last.args.axis, last.args.c)[i]
              /\ last.info.boundary[i].label =
                     <<"X_boundary", "Y_boundary", "Height">>[i]

\* C5 witness: axis Z, origin (0,0), width 10, height 4, extrusion 0 -> 5
\* reported X -5 -> 5, Y -2 -> 2, Z 0 -> 5 (in half units).
C5_Witness ==
    /\ BoxCreated
    /\ last.args.axis = "Z"
    /\ last.args.c = [x1 |-> 0, x2 |-> 0, w |-> 20, h |-> 8, s |-> 0, e |-> 10]
    /\ last.info.boundary[1].nums = <<-10, 10>>
    /\ last.info.boundary[2].nums = <<-4, 4>>
    /\ last.info.boundary[3].nums = <<0, 10>>

CylCreated == last.op = "create_cylinder_Axi_R" /\ last.outcome = "created"

\* C6: a cylinder's boundary has the line <axis>_boundary with
\* extrude_start -> extrude_end, the line <plane>_circle_center with
\* (origin1, origin2), the plane being that of the two other axes, and the
\* line Radius with the radius.
C6_CylinderBoundary ==
    CylCreated =>
        LET k == AxisIndex(last.args.axis)
            c == last.args.c
            b == last.info.boundary
        IN  /\ Len(b) = 3
            /\ models[last.info.id].boundary = b
            /\ b[1].label = <<"X_boundary", "Y_boundary", "Z_boundary">>[k]
            /\ b[1].nums = <<c.s, c.e>>
            /\ b[2].label =
                   <<"YZ_circle_center", "XZ_circle_center", "XY_circle_center">>[k]
            /\ b[2].nums = <<c.x1, c.x2>>
            /\ b[3].label = "Radius"
            /\ b[3].nums = <<c.r>>

\* C6 witness: axis X, origin (2,3), radius 1.5, extrusion -1 -> 1 reported
\* X -1 -> 1, YZ centre (2,3), radius 1.5 (in half units).
C6_Witness ==
    /\ CylCreated
    /\ last.args.axis = "X"
    /\ last.info.boundary =
         << Line("X_boundary", <<-2, 2>>), Line("YZ_circle_center", <<4, 6>>),
            Line("Radius", <<3>>) >>

\* C7: a visualize_models call during which the renderer raised returns the
\* failure message; no exception leaves the call and the models and the
\* assembly are as before.
C7_RenderFailureCaught ==
    [][ (last'.op = "visualize_models" /\ last'.renderer = "raised") =>
            /\ last'.outcome = "render_failed"
            /\ last'.exc = ""
            /\ UNCHANGED <<models, heap, current_assembly>> ]_vars

\* C7 witness: the renderer raised on a registry that holds models.
C7_Witness ==
    /\ last.op = "visualize_models"
    /\ last.renderer = "raised"
    /\ Len(models) > 0
    /\ last.ref = current_assembly

\* C9: whatever a creation tool hands to the kernel is: the plane YZ/XZ/XY of
\* the axis; an origin with extrude_start in the axis's slot and origin1,
\* origin2 in the two other slots in order; a further offset of extrude_start;
\* the profile; the length extrude_end - extrude_start, whatever its sign.
\* A created model's solid is the one built from that placement.
C9_PlacementHandedToKernel ==
    /\ last.placement.plane # "none" =>
          LET k == AxisIndex(last.args.axis)
              c == last.args.c
              p == last.placement
          IN  /\ p.plane = <<"YZ", "XZ", "XY">>[k]
              /\ p.origin[k] = c.s
              /\ p.origin[FirstOther(k)] = c.x1
              /\ p.origin[SecondOther(k)] = c.x2
              /\ p.offset = c.s
              /\ p.length = c.e - c.s
              /\ p.profile.kind = "rect" <=> last.op = "create_box_Axi_W_H"
              /\ p.profile.kind = "circle" <=> last.op = "create_cylinder_Axi_R"
    /\ last.outcome = "created" =>
          /\ last.placement.plane # "none"
          /\ heap[current_assembly][Len(models)] = last.placement

\* C9 witness: a model was created from a negative extrusion length with a
\* non-zero extrude_start, which is both in the origin and the offset.
C9_Witness ==
    /\ last.outcome = "created"
    /\ last.placement.length < 0
    /\ last.placement.offset # 0
    /\ last.placement.offset = last.placement.origin[AxisIndex(last.args.axis)]

CreateOps == {"create_box_Axi_W_H", "create_cylinder_Axi_R"}

\* C10: a creation call with an axis outside {X, Y, Z} hands nothing to the
\* kernel and creates nothing: the models and the assembly are as before, and
\* so is the id the next add_model will give.
C10_InvalidAxisAddsNothing ==
    [][ (last'.op \in CreateOps /\ last'.args.axis \notin Axes) =>
            /\ UNCHANGED <<models, heap, current_assembly>>
            /\ last'.placement = NoPlacement
            /\ last'.outcome # "created"
            /\ NextId(models') = NextId(models) ]_vars

\* C10 witness: a call with axis W ended on the unbound wp, on a registry
\* that holds a model.
C10_Witness ==
    /\ last.exc = "UnboundLocalError"
    /\ last.args.axis = "W"
    /\ Len(models) > 0

(***************************************************************************)
(* Properties of interleaved calls (SpecRace)                              *)
(***************************************************************************)

DuplicateIds ==
    \E i, j \in 1..Len(models) : i # j /\ models[i].id = models[j].id

\* C8: when the calls are serialized, the ids in the registry are 1..N in
\* order, hence pairwise different; two models with the same id (reached by
\* C8_Witness) exist only when calls interleave.
C8_SerializedIdsUnique ==
    serialized =>
        /\ \A i \in 1..Len(models) : models[i].id = i
        /\ ~DuplicateIds

\* C8 witness: without the mutex, the registry holds two models with one id.
C8_Witness == ~serialized /\ DuplicateIds

====
